---- MODULE Spec2Model ----
(***************************************************************************)
(* Student Management System (src/project.py): the CSV-backed record store *)
(* (load_data, save_data), the grade policy (calculate_grade), the record  *)
(* operations (add_student, delete_student, search_student,                *)
(* update_student) and the Streamlit pages that call them.                 *)
(*                                                                         *)
(* Text is a sequence of one-character strings, so that str(int) and       *)
(* float(str) are computed and not assumed.  The text alphabet of the      *)
(* model is digits, "-" and letters: decimal points, exponents, "inf" and  *)
(* "nan" are outside it, so float() yields an integer or fails.            *)
(*                                                                         *)
(* Spec      the pages, and direct calls of add_student and                *)
(*           update_student, run one at a time from an absent file         *)
(* SpecOps   the same, restricted to the operations that write the store   *)
(*           with the marks the widgets produce                            *)
(* SpecGrade calculate_grade on numbers, their text, and non-numbers       *)
(* SpecLoad  load_data on well-formed and malformed backing tables         *)
(* SpecConc  two sessions running add_student / update_student at once     *)
(***************************************************************************)
EXTENDS Integers, Sequences, FiniteSets, TLC

VARIABLES
    file,     \* students.csv: [exists, header, rows]
    last,     \* the last operation run to completion and what its caller saw
    procs,    \* the sessions of the concurrent specification
    clock,    \* orders the loads and saves of the concurrent sessions
    gin,      \* the argument handed to calculate_grade, and what it stands for
    gout,     \* what calculate_grade returned for it
    loaded    \* the list load_data returned

vars == <<file, last, procs, clock, gin, gout, loaded>>

\* ---------------------------------------------------------------- bounds
MaxRecords == 2
MaxMarks == 104

\* ------------------------------------------------------- Python values
PyStr(s) == [t |-> "str", n |-> 0, s |-> s, l |-> <<>>]
PyInt(n) == [t |-> "int", n |-> n, s |-> <<>>, l |-> <<>>]
PyNone == [t |-> "none", n |-> 0, s |-> <<>>, l |-> <<>>]
PyList(l) == [t |-> "list", n |-> 0, s |-> <<>>, l |-> l]

Digits == <<"0", "1", "2", "3", "4", "5", "6", "7", "8", "9">>

RECURSIVE NatStr(_)
NatStr(n) ==
    IF n < 10 THEN <<Digits[n + 1]>>
    ELSE NatStr(n \div 10) \o <<Digits[(n % 10) + 1]>>

\* str(n) of a Python int
IntStr(n) == IF n < 0 THEN <<"-">> \o NatStr(0 - n) ELSE NatStr(n)

DigitVal(c) == CHOOSE d \in 0..9 : Digits[d + 1] = c

IsDigit(c) == \E d \in 1..10 : Digits[d] = c

RECURSIVE NatVal(_)
NatVal(s) ==
    IF Len(s) = 0 THEN 0
    ELSE 10 * NatVal(SubSeq(s, 1, Len(s) - 1)) + DigitVal(s[Len(s)])

AllDigits(s) == Len(s) > 0 /\ \A i \in 1..Len(s) : IsDigit(s[i])

\* str(list) of a list of strings: ['a', 'b']
RECURSIVE JoinRepr(_)
JoinRepr(l) ==
    IF Len(l) = 0 THEN <<>>
    ELSE <<"'">> \o Head(l) \o <<"'">>
         \o (IF Len(l) > 1 THEN <<",", " ">> ELSE <<>>) \o JoinRepr(Tail(l))

\* float(v): [err, val]; err is "" when the conversion succeeds
Float(v) ==
    CASE v.t = "int" -> [err |-> "", val |-> v.n]
      [] v.t = "str" ->
            IF AllDigits(v.s) THEN [err |-> "", val |-> NatVal(v.s)]
            ELSE IF Len(v.s) > 1 /\ v.s[1] = "-" /\ AllDigits(Tail(v.s))
                 THEN [err |-> "", val |-> 0 - NatVal(Tail(v.s))]
            ELSE [err |-> "ValueError", val |-> 0]
      [] OTHER -> [err |-> "TypeError", val |-> 0]

\* Python truthiness of a value
Truthy(v) ==
    CASE v.t = "int" -> v.n # 0
      [] v.t = "str" -> Len(v.s) > 0
      [] v.t = "list" -> Len(v.l) > 0
      [] OTHER -> FALSE

\* ------------------------------------------------------------ the schema
fieldnames ==
    <<"Name", "Roll", "Course", "Gender", "DOB", "Email",
      "Phone", "Address", "Subjects", "Attendance", "Marks", "Grade">>

FieldSet == {fieldnames[i] : i \in 1..Len(fieldnames)}

\* csv.DictReader's restkey (None): the key of a row's surplus cells
RestKey == "<restkey None>"

\* dict.get(key, default)
Get(d, key, default) == IF key \in DOMAIN d THEN d[key] ELSE default

\* dict.update(info)
DictUpdate(d, info) == info @@ d

EmptyDict == [k \in {} |-> PyNone]

\* ---------------------------------------------------------- grade policy
calculate_grade_gt(marks) ==
    LET f == Float(marks)
        m == IF f.err = "" THEN f.val ELSE 0
    IN  IF m > 90 THEN "A"
        ELSE IF m >= 75 THEN "B"
        ELSE IF m >= 60 THEN "C"
        ELSE IF m >= 40 THEN "D"
        ELSE "F"

calculate_grade(marks) ==
    LET f == Float(marks)
        m == IF f.err = "" THEN f.val ELSE 0
    IN  IF m >= 90 THEN "A"
        ELSE IF m >= 75 THEN "B"
        ELSE IF m >= 60 THEN "C"
        ELSE IF m >= 40 THEN "D"
        ELSE "F"

\* a grade as the text of a cell
GradeText(g) == <<g>>

\* --------------------------------------------------------- record store
NoFile == [exists |-> FALSE, header |-> <<>>, rows |-> <<>>]

\* the file right after open(FILENAME, "w"): present and empty
TruncatedFile == [exists |-> TRUE, header |-> <<>>, rows |-> <<>>]

\* the dict csv.DictReader builds for one row: dict(zip(fieldnames, row)),
\* then the surplus cells under restkey, or restval (None) for the
\* fieldnames the row has no cell for; a later duplicate fieldname wins
RECURSIVE ZipFrom(_, _, _)
ZipFrom(header, row, i) ==
    IF i > Len(header) THEN EmptyDict
    ELSE ZipFrom(header, row, i + 1)
         @@ (header[i] :> (IF i <= Len(row) THEN PyStr(row[i]) ELSE PyNone))

RowDict(header, row) ==
    IF Len(row) > Len(header)
    THEN (RestKey :> PyList(SubSeq(row, Len(header) + 1, Len(row))))
         @@ ZipFrom(header, row, 1)
    ELSE ZipFrom(header, row, 1)

\* list(reader): blank lines are skipped, every other row becomes a dict
RECURSIVE ReadRows(_, _)
ReadRows(header, rows) ==
    IF Len(rows) = 0 THEN <<>>
    ELSE IF Len(Head(rows)) = 0 THEN ReadRows(header, Tail(rows))
    ELSE <<RowDict(header, Head(rows))>> \o ReadRows(header, Tail(rows))

load_data(f) ==
    IF ~f.exists THEN <<>> ELSE ReadRows(f.header, f.rows)

\* what csv's writer puts in a cell for a value
CellText(v) ==
    CASE v.t = "str" -> v.s
      [] v.t = "int" -> IntStr(v.n)
      [] v.t = "list" -> <<"[">> \o JoinRepr(v.l) \o <<"]">>
      [] OTHER -> <<>>

\* DictWriter._dict_to_list: a key outside fieldnames raises ValueError
WrongFields(d) == (DOMAIN d) \ FieldSet

\* the cells of one row: rowdict.get(key, "") for every fieldname
RECURSIVE WriteRowFrom(_, _)
WriteRowFrom(d, j) ==
    IF j > Len(fieldnames) THEN <<>>
    ELSE <<CellText(Get(d, fieldnames[j], PyStr(<<>>)))>> \o WriteRowFrom(d, j + 1)

WriteRow(d) == WriteRowFrom(d, 1)

\* writerows stops at the first dict that raises
RECURSIVE WriteRows(_)
WriteRows(data) ==
    IF Len(data) = 0 \/ WrongFields(Head(data)) # {} THEN <<>>
    ELSE <<WriteRow(Head(data))>> \o WriteRows(Tail(data))

\* save_data: [file, err]; the header and the rows before the first bad
\* one are on disk when the ValueError leaves the with block
save_data(data) ==
    [file |-> [exists |-> TRUE, header |-> fieldnames, rows |-> WriteRows(data)],
     err |-> IF \E i \in 1..Len(data) : WrongFields(data[i]) # {}
             THEN "ValueError" ELSE ""]

\* ----------------------------------------------------- record operations
\* the indices of the rows whose Roll equals roll (row.get("Roll") == roll)
Matches(data, roll) == {i \in 1..Len(data) : Get(data[i], "Roll", PyNone) = roll}

First(S) == CHOOSE i \in S : \A j \in S : i <= j

\* the dict add_student appends
NewStudent(a) ==
    [Name |-> a.name, Roll |-> a.roll, Course |-> a.course, Gender |-> a.gender,
     DOB |-> a.dob, Email |-> a.email, Phone |-> a.phone, Address |-> a.address,
     Subjects |-> a.subjects, Attendance |-> a.attendance, Marks |-> a.marks,
     Grade |-> PyStr(GradeText(calculate_grade(a.marks)))]

\* the list add_student saves
AddRows(data, a) == Append(data, NewStudent(a))

\* add_student without the return after st.error: the duplicate is appended
add_student_no_return(f, a) ==
    LET data == load_data(f)
        w == save_data(Append(data, NewStudent(a)))
    IN  [file |-> w.file, ret |-> IF w.err = "" THEN "None" ELSE "raised",
         msgs |-> IF Matches(data, a.roll) # {} THEN <<"error">> ELSE <<>>,
         err |-> w.err]

\* add_student(f, a): [file, ret, msgs, err].  Both exits return None.
add_student(f, a) ==
    LET data == load_data(f)
    IN  IF Matches(data, a.roll) # {}
        THEN [file |-> f, ret |-> "None", msgs |-> <<"error">>, err |-> ""]
        ELSE LET w == save_data(AddRows(data, a))
             IN  [file |-> w.file, ret |-> IF w.err = "" THEN "None" ELSE "raised",
                   msgs |-> <<>>, err |-> w.err]

\* delete_student removing only the first row whose Roll equals roll
delete_student_first(f, roll) ==
    LET data == load_data(f)
        m == Matches(data, roll)
        w == save_data(IF m = {} THEN data
                       ELSE SubSeq(data, 1, First(m) - 1)
                            \o SubSeq(data, First(m) + 1, Len(data)))
    IN  [file |-> w.file, ret |-> IF w.err = "" THEN "None" ELSE "raised",
         msgs |-> <<>>, err |-> w.err]

delete_student(f, roll) ==
    LET data == load_data(f)
        keep(row) == Get(row, "Roll", PyNone) # roll
        w == save_data(SelectSeq(data, keep))
    IN  [file |-> w.file, ret |-> IF w.err = "" THEN "None" ELSE "raised",
                   msgs |-> <<>>, err |-> w.err]

\* search_student: a sequence holding the first matching row, or nothing
search_student(f, roll) ==
    LET data == load_data(f)
    IN  IF Matches(data, roll) # {} THEN <<data[First(Matches(data, roll))]>>
        ELSE <<>>

\* update_student without the return inside the loop: every match is updated
update_student_all(f, roll, updated_info) ==
    LET data == load_data(f)
    IN  IF Matches(data, roll) # {}
        THEN LET w == save_data([i \in 1..Len(data) |->
                                    IF i \in Matches(data, roll)
                                    THEN DictUpdate(data[i], updated_info)
                                    ELSE data[i]])
             IN  [file |-> w.file, ret |-> IF w.err = "" THEN "True" ELSE "raised",
                  msgs |-> <<>>, err |-> w.err]
        ELSE [file |-> f, ret |-> "False", msgs |-> <<>>, err |-> ""]

\* the list update_student saves when a row matches
UpdateRows(data, roll, updated_info) ==
    LET i == First(Matches(data, roll))
    IN  [data EXCEPT ![i] = DictUpdate(data[i], updated_info)]

update_student(f, roll, updated_info) ==
    LET data == load_data(f)
    IN  IF Matches(data, roll) # {}
        THEN LET w == save_data(UpdateRows(data, roll, updated_info))
             IN  [file |-> w.file, ret |-> IF w.err = "" THEN "True" ELSE "raised",
                  msgs |-> <<>>, err |-> w.err]
        ELSE [file |-> f, ret |-> "False", msgs |-> <<>>, err |-> ""]

\* ------------------------------------------------------------ the inputs
Rolls == {<<"S", "1">>, <<"S", "2">>}

Male == <<"M", "a", "l", "e">>

Dob2000 == <<"2", "0", "0", "0", "-", "0", "1", "-", "0", "1">>

\* what the number_input and slider widgets of the pages can hand over
WidgetMarks == {95, 50}

\* what a direct caller of add_student can hand over as marks
CallMarks == {PyStr(<<"x">>), PyNone}

AddArgs(name, roll, marks) ==
    [name |-> PyStr(name), roll |-> PyStr(roll), course |-> PyStr(<<"C">>),
     gender |-> PyStr(Male), dob |-> PyStr(Dob2000), email |-> PyStr(<<>>),
     phone |-> PyStr(<<>>), address |-> PyStr(<<>>), subjects |-> PyStr(<<>>),
     attendance |-> PyInt(80), marks |-> marks]

\* what the Add Student page's widgets hand to its button: a filled form,
\* or one whose required Full Name is empty
PageAdds ==
    {AddArgs(<<"A">>, r, PyInt(m)) : r \in Rolls, m \in WidgetMarks}
    \cup {AddArgs(<<>>, <<"S", "1">>, PyInt(95))}

Only(k, v) == k :> v

\* the partial field sets a direct caller hands to update_student
CallInfos ==
    {Only("Marks", PyInt(50)), Only("Grade", PyStr(GradeText("A")))}
    \cup {Only("Roll", PyStr(r)) : r \in Rolls}

NoStats == [total |-> 0, avg_marks |-> 0, avg_att |-> 0]

\* what is recorded of an operation; deleted is the roll the operation
\* before it was a successful Delete of, or None
Obs(op, roll, info, r, stats) ==
    [op |-> op, roll |-> roll, info |-> info, ret |-> r.ret, msgs |-> r.msgs,
     err |-> r.err, stats |-> stats,
     deleted |-> IF last.op = "DeleteStudentPage" /\ last.msgs = <<"success">>
                 THEN last.roll ELSE PyNone]

Start ==
    [op |-> "start", roll |-> PyNone, info |-> EmptyDict, ret |-> "None",
     msgs |-> <<>>, err |-> "", stats |-> NoStats,
     deleted |-> PyNone]

NoInput == [arg |-> PyNone, numeric |-> FALSE, value |-> 0]

Others == <<procs, clock, gin, gout, loaded>>

\* ------------------------------------------------------------- the pages
\* round(s / t, 2) in hundredths; t < 8, so no quotient is a tie
Round2(s, t) == (200 * s + t) \div (2 * t)

RECURSIVE SumSeq(_)
SumSeq(q) == IF Len(q) = 0 THEN 0 ELSE Head(q) + SumSeq(Tail(q))

\* float(s.get(key, 0) or 0) of every row
Floats(data, key) ==
    [i \in 1..Len(data) |->
        LET v == Get(data[i], key, PyInt(0))
        IN  Float(IF Truthy(v) THEN v ELSE PyInt(0))]

FirstErr(fs) ==
    IF \E i \in 1..Len(fs) : fs[i].err # ""
    THEN fs[First({i \in 1..Len(fs) : fs[i].err # ""})].err
    ELSE ""

Average(fs) ==
    IF Len(fs) = 0 THEN 0
    ELSE Round2(SumSeq([i \in 1..Len(fs) |-> fs[i].val]), Len(fs))

\* the Dashboard page: [err, stats]
DashboardStats(f) ==
    LET data == load_data(f)
        ms == Floats(data, "Marks")
        as == Floats(data, "Attendance")
        err == IF FirstErr(ms) # "" THEN FirstErr(ms) ELSE FirstErr(as)
    IN  [err |-> err,
         stats |-> IF err # "" THEN NoStats
                   ELSE [total |-> Len(data), avg_marks |-> Average(ms),
                         avg_att |-> Average(as)]]

Dashboard ==
    LET d == DashboardStats(file)
    IN  /\ last' = Obs("Dashboard", PyNone, EmptyDict,
                       [ret |-> IF d.err = "" THEN "None" ELSE "raised",
                        msgs |-> <<>>, err |-> d.err], d.stats)
        /\ UNCHANGED <<file, Others>>

\* the Add Student page's button: add_student, then st.success whatever
\* add_student did
AddStudentButton(a) ==
    IF Truthy(a.name) /\ Truthy(a.roll) /\ Truthy(a.course)
    THEN LET r == add_student(file, a)
         IN  [r EXCEPT !.msgs = IF r.err = "" THEN r.msgs \o <<"success">> ELSE r.msgs]
    ELSE [file |-> file, ret |-> "None", msgs |-> <<"warning">>, err |-> ""]

AddStudentPage ==
    \E a \in PageAdds :
        LET r == AddStudentButton(a)
        IN  /\ Len(load_data(file)) < MaxRecords
            /\ file' = r.file
            /\ last' = Obs("AddStudentPage", a.roll, NewStudent(a), r, NoStats)
            /\ UNCHANGED Others

\* add_student called with marks no widget produces
CallAddStudent ==
    \E roll \in Rolls, marks \in CallMarks :
        LET a == AddArgs(<<"A">>, roll, marks)
            r == add_student(file, a)
        IN  /\ Len(load_data(file)) < MaxRecords
            /\ file' = r.file
            /\ last' = Obs("add_student", a.roll, NewStudent(a), r, NoStats)
            /\ UNCHANGED Others

SearchPage ==
    \E roll \in Rolls :
        LET student == search_student(file, PyStr(roll))
        IN  /\ last' = Obs("SearchPage", PyStr(roll), EmptyDict,
                           [ret |-> IF Len(student) > 0 THEN "found" ELSE "None",
                            msgs |-> IF Len(student) > 0 /\ DOMAIN student[1] # {}
                                     THEN <<"success">> ELSE <<"error">>,
                            err |-> ""], NoStats)
            /\ UNCHANGED <<file, Others>>

\* the form of the Update Student page for the student found: the error a
\* slider's default int(float(...)) raises, or "".  Gender and DOB are always
\* the values the Add Student page's widgets produced, so selectbox's index
\* and strptime do not raise.
UpdateFormErr(student) ==
    IF Float(student["Marks"]).err # "" THEN Float(student["Marks"]).err
    ELSE Float(student["Attendance"]).err

\* updated_info as the page's Save Changes button builds it
PageInfo(student, marks, attendance) ==
    [Name |-> student["Name"], Course |-> student["Course"],
     Gender |-> student["Gender"], DOB |-> student["DOB"],
     Marks |-> PyInt(marks), Attendance |-> PyInt(attendance),
     Grade |-> PyStr(GradeText(calculate_grade(PyInt(marks)))),
     Address |-> student["Address"]]

UpdateStudentPage ==
    \E roll \in Rolls, m \in WidgetMarks :
        LET student == search_student(file, PyStr(roll))
        IN  /\ Len(student) > 0
            /\ IF UpdateFormErr(student[1]) # ""
               THEN /\ file' = file
                    /\ last' = Obs("UpdateStudentPage", PyStr(roll), EmptyDict,
                                   [ret |-> "raised", msgs |-> <<>>,
                                    err |-> UpdateFormErr(student[1])], NoStats)
               ELSE LET info == PageInfo(student[1], m, 80)
                        r == update_student(file, PyStr(roll), info)
                    IN  /\ file' = r.file
                        /\ last' = Obs("UpdateStudentPage", PyStr(roll), info,
                                       [r EXCEPT !.msgs = <<"success">>], NoStats)
            /\ UNCHANGED Others

\* update_student called with a partial field set
CallUpdateStudent ==
    \E roll \in Rolls, info \in CallInfos :
        LET r == update_student(file, PyStr(roll), info)
        IN  /\ file' = r.file
            /\ last' = Obs("update_student", PyStr(roll), info, r, NoStats)
            /\ UNCHANGED Others

\* the Delete Student page's button: success exactly when the length changed
DeleteButton(f, roll) ==
    LET before == load_data(f)
        r == delete_student(f, roll)
        after == load_data(r.file)
    IN  [r EXCEPT !.msgs = IF r.err # "" THEN <<>>
                           ELSE IF Len(before) # Len(after) THEN <<"success">>
                           ELSE <<"error">>]

DeleteStudentPage ==
    \E roll \in Rolls :
        LET r == DeleteButton(file, PyStr(roll))
        IN  /\ file' = r.file
            /\ last' = Obs("DeleteStudentPage", PyStr(roll), EmptyDict, r, NoStats)
            /\ UNCHANGED Others

\* ----------------------------------------- the pages run one at a time
Init ==
    /\ file = NoFile
    /\ last = Start
    /\ procs = <<>>
    /\ clock = 0
    /\ gin = NoInput
    /\ gout = ""
    /\ loaded = <<>>

Next ==
    \/ Dashboard
    \/ AddStudentPage
    \/ CallAddStudent
    \/ SearchPage
    \/ UpdateStudentPage
    \/ CallUpdateStudent
    \/ DeleteStudentPage

Spec == Init /\ [][Next]_vars

\* the operations that write the store, with the marks the widgets produce
NextOps ==
    \/ AddStudentPage
    \/ UpdateStudentPage
    \/ CallUpdateStudent
    \/ DeleteStudentPage

SpecOps == Init /\ [][NextOps]_vars

\* ------------------------------------------ calculate_grade on its inputs
\* ints, the same numbers as text, and what is no number
GradeInputs ==
    {[arg |-> PyInt(n), numeric |-> TRUE, value |-> n] : n \in (0 - 5)..MaxMarks}
    \cup {[arg |-> PyStr(IntStr(n)), numeric |-> TRUE, value |-> n] :
             n \in (0 - 5)..MaxMarks}
    \cup {[arg |-> v, numeric |-> FALSE, value |-> 0] :
             v \in {PyNone, PyStr(<<>>), PyStr(<<"x">>), PyStr(<<"9", "x">>),
                    PyList(<<>>)}}

InitGrade ==
    /\ gin \in GradeInputs
    /\ gout = ""
    /\ file = NoFile
    /\ last = Start
    /\ procs = <<>>
    /\ clock = 0
    /\ loaded = <<>>

CalculateGrade ==
    /\ gout = ""
    /\ gout' = calculate_grade(gin.arg)
    /\ UNCHANGED <<file, last, procs, clock, gin, loaded>>

SpecGrade == InitGrade /\ [][CalculateGrade]_vars

\* ------------------------------------------- load_data on any backing table
Cell == <<"c">>

FullRow == [j \in 1..Len(fieldnames) |-> Cell]

\* rows as long as the header, one cell short, one cell long, and a blank line
TableRows == {FullRow, SubSeq(FullRow, 1, Len(fieldnames) - 1), Append(FullRow, Cell), <<>>}

\* the schema's header, one without Grade, one with an unrecognized column,
\* one with only an unrecognized column and Roll
TableHeaders ==
    {fieldnames, SubSeq(fieldnames, 1, Len(fieldnames) - 1),
     Append(fieldnames, "Extra"), <<"Extra", "Roll">>}

Tables ==
    {[exists |-> TRUE, header |-> h, rows |-> rs] :
        h \in TableHeaders,
        rs \in {<<>>} \cup {<<r>> : r \in TableRows}
               \cup {<<r1, r2>> : r1 \in TableRows, r2 \in TableRows}}
    \cup {NoFile, TruncatedFile}

InitLoad ==
    /\ file \in Tables
    /\ last = Start
    /\ loaded = <<>>
    /\ procs = <<>>
    /\ clock = 0
    /\ gin = NoInput
    /\ gout = ""

LoadData ==
    /\ last.op = "start"
    /\ loaded' = load_data(file)
    /\ last' = Obs("load_data", PyNone, EmptyDict,
                   [ret |-> "list", msgs |-> <<>>, err |-> ""], NoStats)
    /\ UNCHANGED <<file, procs, clock, gin, gout>>

SpecLoad == InitLoad /\ [][LoadData]_vars

\* --------------------------- two sessions, no lock around load-mutate-save
\* Each Streamlit session runs the script in a thread of its own.  A session
\* loads, then opens the file for writing (which truncates it), then writes
\* its rows from offset 0 when the with block closes the file.
Sessions == {1, 2}

StoreS1 == add_student(NoFile, AddArgs(<<"A">>, <<"S", "1">>, PyInt(95))).file

SessionOps ==
    {[kind |-> "add", roll |-> PyStr(r), a |-> AddArgs(<<"A">>, r, PyInt(50)),
      info |-> EmptyDict] : r \in Rolls}
    \cup {[kind |-> "update", roll |-> PyStr(<<"S", "1">>),
           a |-> AddArgs(<<"A">>, <<"S", "1">>, PyInt(50)),
           info |-> Only("Marks", PyInt(50))]}

NoOp == [kind |-> "none", roll |-> PyNone,
         a |-> AddArgs(<<"A">>, <<"S", "1">>, PyInt(50)), info |-> EmptyDict]

IdleSession ==
    [pc |-> "idle", op |-> NoOp, data |-> <<>>, ret |-> "",
     tload |-> 0, topen |-> 0, tclose |-> 0]

\* open(FILENAME, "w") by a session without truncation
OpenWriteKeep(f) == [f EXCEPT !.exists = TRUE]

\* open(FILENAME, "w"): the file exists and is empty
OpenWrite(f) == TruncatedFile

\* the rows a session's close writes from offset 0 over what is in the file:
\* rows another session wrote past them since the truncation stay
CloseWrite(mine, cur) ==
    [exists |-> TRUE, header |-> mine.header,
     rows |-> mine.rows \o SubSeq(cur.rows, Len(mine.rows) + 1, Len(cur.rows))]

InitConc ==
    /\ file \in {NoFile, StoreS1}
    /\ procs = [p \in Sessions |-> IdleSession]
    /\ clock = 1
    /\ last = Start
    /\ gin = NoInput
    /\ gout = ""
    /\ loaded = <<>>

\* data = load_data() and the loop over it, in add_student or update_student
SessionLoad ==
    \E p \in Sessions, op \in SessionOps :
        LET data == load_data(file)
            found == Matches(data, op.roll) # {}
            saves == IF op.kind = "add" THEN ~found ELSE found
            rows == IF op.kind = "add" THEN AddRows(data, op.a)
                    ELSE IF found THEN UpdateRows(data, op.roll, op.info)
                    ELSE data
        IN  /\ procs[p].pc = "idle"
            /\ procs' = [procs EXCEPT ![p] =
                   [pc |-> IF saves THEN "loaded" ELSE "done", op |-> op,
                    data |-> IF saves THEN rows ELSE <<>>,
                    ret |-> IF saves THEN ""
                            ELSE IF op.kind = "add" THEN "rejected" ELSE "False",
                    tload |-> clock, topen |-> 0, tclose |-> 0]]
            /\ clock' = clock + 1
            /\ UNCHANGED <<file, last, gin, gout, loaded>>

\* save_data: open(FILENAME, "w")
SessionOpen ==
    \E p \in Sessions :
        /\ procs[p].pc = "loaded"
        /\ file' = OpenWrite(file)
        /\ procs' = [procs EXCEPT ![p].pc = "opened", ![p].topen = clock]
        /\ clock' = clock + 1
        /\ UNCHANGED <<last, gin, gout, loaded>>

\* save_data: the header and the rows reach the file as the with block ends
SessionClose ==
    \E p \in Sessions :
        /\ procs[p].pc = "opened"
        /\ file' = CloseWrite(save_data(procs[p].data).file, file)
        /\ procs' = [procs EXCEPT ![p].pc = "done", ![p].tclose = clock,
                                  ![p].ret = IF procs[p].op.kind = "add"
                                             THEN "None" ELSE "True"]
        /\ clock' = clock + 1
        /\ UNCHANGED <<last, gin, gout, loaded>>

NextConc == SessionLoad \/ SessionOpen \/ SessionClose

SpecConc == InitConc /\ [][NextConc]_vars

\* ================================================================ claims
Store == load_data(file)

RollOf(row) == Get(row, "Roll", PyNone)

IsAdd(o) == o.op \in {"AddStudentPage", "add_student"} /\ o.msgs # <<"warning">>

IsUpdate(o) ==
    o.op = "update_student" \/ (o.op = "UpdateStudentPage" /\ o.err = "")

IsDelete(o) == o.op = "DeleteStudentPage"

\* C1: no two records of the store have the same Roll, after any sequence
\* of Add, Update (any partial field set) and Delete run one at a time.
C1_RollUnique ==
    \A i, j \in 1..Len(Store) : i # j => RollOf(Store[i]) # RollOf(Store[j])

\* C2: an Add is rejected exactly when a stored record has its Roll, and a
\* rejected Add leaves the backing file as it was (records, fields, order,
\* existence); an accepted Add adds one record.
C2_RejectedAddUnchanged ==
    [][IsAdd(last') =>
          IF Matches(Store, last'.roll) # {}
          THEN file' = file /\ last'.msgs[1] = "error"
          ELSE /\ \A i \in 1..Len(last'.msgs) : last'.msgs[i] # "error"
               /\ Len(load_data(file')) = Len(Store) + 1]_vars

C2_Witness ==
    /\ last.op = "AddStudentPage"
    /\ Len(last.msgs) > 0 /\ last.msgs[1] = "error"
    /\ Matches(Store, last.roll) # {}

\* C3: every stored record's Grade is grade(Marks) of that record, after any
\* sequence of Add, Update and Delete, also after an Update naming Marks
\* without Grade or Grade alone.
C3_GradeDerived ==
    \A i \in 1..Len(Store) :
        Get(Store[i], "Grade", PyNone)
            = PyStr(GradeText(calculate_grade(Get(Store[i], "Marks", PyNone))))

\* C4: an Update of a Roll that is stored returns True and changes only the
\* named fields of the first record with that Roll: its other fields, the
\* other records, their number and order stay; an Update of a Roll that is
\* not stored returns False and leaves the backing file as it was.
C4_UpdateFrame ==
    [][IsUpdate(last') =>
          LET before == load_data(file)
              after == load_data(file')
              m == Matches(before, last'.roll)
          IN  IF m = {}
              THEN last'.ret = "False" /\ file' = file
              ELSE /\ last'.ret = "True"
                   /\ Len(after) = Len(before)
                   /\ \A i \in 1..Len(before) :
                        \A k \in FieldSet :
                           after[i][k] =
                              IF i = First(m) /\ k \in DOMAIN last'.info
                              THEN PyStr(CellText(last'.info[k]))
                              ELSE before[i][k]]_vars

\* an Update of Marks alone, done on a store where two records have the Roll
C4_Witness ==
    /\ last.op = "update_student"
    /\ last.ret = "True"
    /\ DOMAIN last.info = {"Marks"}
    /\ Cardinality(Matches(Store, last.roll)) = 2
    /\ \E i, j \in Matches(Store, last.roll) : Store[i]["Marks"] # Store[j]["Marks"]

\* C5: Delete removes every record with the Roll and keeps the others in
\* their order; it reports success exactly when the store shrank; a Delete
\* of the same Roll right after a successful one changes nothing and
\* reports failure.
C5_DeleteAll ==
    [][IsDelete(last') =>
          LET before == load_data(file)
              after == load_data(file')
              kept == {i \in 1..Len(before) : RollOf(before[i]) # last'.roll}
              nth(n) == CHOOSE i \in kept :
                           Cardinality({j \in kept : j < i}) = n - 1
          IN  /\ Len(after) = Cardinality(kept)
              /\ \A n \in 1..Len(after) : after[n] = before[nth(n)]
              /\ (last'.msgs = <<"success">>) = (Len(after) < Len(before))
              /\ (last'.msgs = <<"error">>) = (Len(after) = Len(before))
              /\ (IsDelete(last) /\ last.msgs = <<"success">>
                    /\ last.roll = last'.roll)
                 => (after = before /\ last'.msgs = <<"error">>)]_vars

\* the second Delete of a Roll, right after the one that removed it, with
\* another record left in the store
C5_Witness ==
    /\ IsDelete(last)
    /\ last.deleted = last.roll
    /\ last.msgs = <<"error">>
    /\ Len(Store) > 0

\* the grade the thresholds of the specification give an integer
GradeByRange(n) ==
    CASE n >= 90 -> "A"
      [] n >= 75 /\ n < 90 -> "B"
      [] n >= 60 /\ n < 75 -> "C"
      [] n >= 40 /\ n < 60 -> "D"
      [] n < 40 -> "F"

Rank(g) == CASE g = "A" -> 4 [] g = "B" -> 3 [] g = "C" -> 2 [] g = "D" -> 1 [] OTHER -> 0

\* C6: grade(marks) is A from 90, B from 75 to below 90, C from 60 to below
\* 75, D from 40 to below 60 and F below 40, for every integer marks in the
\* range, given as a number or as its text; what is no number yields F; a
\* lower marks never yields a better grade.
C6_GradeThresholds ==
    gout # "" =>
        /\ gout = IF gin.numeric THEN GradeByRange(gin.value) ELSE "F"
        /\ gin.numeric =>
              \A n \in (0 - 5)..MaxMarks :
                  n <= gin.value => Rank(calculate_grade(PyInt(n))) <= Rank(gout)

\* the boundary 90, handed over as text
C6_Witness == gout = "A" /\ gin.value = 90 /\ gin.arg = PyStr(<<"9", "0">>)

\* C7: every record load returns has the twelve schema fields, each with a
\* string value, and no other key, whatever the backing table.
C7_LoadedRecordsComplete ==
    last.op = "load_data" =>
        \A i \in 1..Len(loaded) :
            /\ DOMAIN loaded[i] = FieldSet
            /\ \A k \in DOMAIN loaded[i] : loaded[i][k].t = "str"

\* C8: the caller of Add can tell a rejected duplicate from an insert: it
\* never reports a rejected Add as a successful one.
C8_RejectedAddNotReported ==
    (last.op = "AddStudentPage" /\ Len(last.msgs) > 0 /\ last.msgs[1] = "error")
        => \A i \in 1..Len(last.msgs) : last.msgs[i] # "success"

\* a mean in hundredths, a value that is no number counting 0
NumberOr0(v) == IF Float(v).err = "" THEN Float(v).val ELSE 0

MeanOf(data, key) ==
    IF Len(data) = 0 THEN 0
    ELSE Round2(SumSeq([i \in 1..Len(data) |-> NumberOr0(Get(data[i], key, PyNone))]),
                Len(data))

\* C9: aggregation over any stored snapshot completes without error; count
\* is the number of records and each mean is the sum over the records
\* divided by count, a value that is absent, empty or no number counting 0;
\* an empty collection gives 0, 0, 0.
C9_AggregationTotal ==
    last.op = "Dashboard" =>
        /\ last.err = ""
        /\ last.stats = [total |-> Len(Store), avg_marks |-> MeanOf(Store, "Marks"),
                         avg_att |-> MeanOf(Store, "Attendance")]

\* a session that saved
Saved(p) == procs[p].pc = "done" /\ procs[p].tclose > 0

\* the change of a session's operation is in the store
Present(op, data) ==
    IF op.kind = "add" THEN Matches(data, op.roll) # {}
    ELSE /\ Matches(data, op.roll) # {}
         /\ \A k \in DOMAIN op.info :
               data[First(Matches(data, op.roll))][k] = PyStr(CellText(op.info[k]))

\* both loaded before either began to save, and q's save came after p's
Clobbers(p, q) ==
    /\ Saved(p) /\ Saved(q)
    /\ procs[p].op.roll # procs[q].op.roll
    /\ procs[q].tload < procs[p].topen
    /\ procs[p].tload < procs[p].topen
    /\ procs[p].tclose < procs[q].topen

\* q loaded after p had saved
OneAtATime(p, q) ==
    /\ Saved(p) /\ Saved(q)
    /\ procs[p].op.roll # procs[q].op.roll
    /\ procs[p].tclose < procs[q].tload

\* C10: no lock guards load-mutate-save.  Of two sessions that both saved
\* changes to different Rolls: when both loaded before either began to save
\* and one save came after the other, the file is what the later save wrote
\* and the earlier session's change is not in it, although that session
\* completed; when one session loaded after the other had saved, both
\* changes are in the file.
C10_LostUpdate ==
    \A p, q \in DOMAIN procs :
        /\ Clobbers(p, q) =>
              /\ file = save_data(procs[q].data).file
              /\ ~Present(procs[p].op, Store)
              /\ Present(procs[q].op, Store)
        /\ OneAtATime(p, q) =>
              /\ Present(procs[p].op, Store)
              /\ Present(procs[q].op, Store)

\* an Add and an Update that both loaded the one-record store, the Add saved
\* first: the Update's save has dropped the added record
C10_Witness ==
    \E p, q \in DOMAIN procs :
        /\ Clobbers(p, q)
        /\ procs[p].op.kind = "add" /\ procs[p].ret = "None"
        /\ procs[q].op.kind = "update"
        /\ Len(Store) = 1

====
